---- MODULE Spec2Model ----
(***************************************************************************)
(* Model of analyze_mixer_privacy (Implementations/Mixer.py, lines         *)
(* 146-214): the permutation loop over the observed amounts, the recursive *)
(* sender/receiver search find_solutions_recursive, and the frozenset      *)
(* canonicalisation into unique_solutions.                                 *)
(*                                                                         *)
(* Balances and amounts are exact numbers counted in ticks of half the     *)
(* comparison tolerance, so that the tolerance 1e-9 of line 170 is Tol = 2 *)
(* ticks and a difference below the tolerance (one tick) is an input the   *)
(* model can draw.  Floating-point rounding of the additions is not        *)
(* modelled: the arithmetic is that of the reals on this grid.             *)
(***************************************************************************)
EXTENDS Integers, Sequences, FiniteSets, Bags, TLC

\* ---------------------------------------------------------------- bounds
MaxTx == 2          \* longest list of amounts drawn as input
MaxDelta == 3       \* a final balance is within MaxDelta ticks of the initial one
BaseBal == 4        \* the balance every wallet starts from, in ticks

\* ------------------------------------------------------------- constants
Tol == 2            \* 1e-9, in ticks

\* The values the amounts of one input are drawn from: two positive amounts
\* that differ by less than the tolerance, or a positive amount and a negative
\* (malformed) one.
AmountValueSets == { {2, 3}, {-2, 2} }

\* The lists of users drawn as input (names are unique, as User objects are).
UserLists ==
  { <<>>, <<"A">>, <<"A", "B">>, <<"B", "A">> }

VARIABLES
  users,             \* list of user names, in the caller's order
  initial_balances,  \* name -> balance
  final_balances,    \* name -> balance
  tx_amounts,        \* list of observed amounts
  amount_permutations, \* bag of orderings the for-loop has still to take
  stack,             \* pending calls of find_solutions_recursive, next call first
  unique_solutions,  \* set of frozensets of (label, amount)
  pc,                \* "run" inside the for-loop, "done" after it
  searched,          \* history: bag of the orderings handed to the search
  leaves,            \* history: number of base-case calls so far
  emitted            \* history: the (tx_index, path) of every path added

vars ==
  << users, initial_balances, final_balances, tx_amounts, amount_permutations,
     stack, unique_solutions, pc, searched, leaves, emitted >>

inputs == << users, initial_balances, final_balances, tx_amounts >>

\* ------------------------------------------------------------- helpers
Abs(x) == IF x < 0 THEN -x ELSE x

Range(s) == { s[i] : i \in 1..Len(s) }

user_names == Range(users)

num_tx == Len(tx_amounts)

\* f"{sender.name} -> {receiver.name}"
Label(sender, receiver) == sender \o " -> " \o receiver

\* frozenset(path)
Frozenset(path) == { path[i] : i \in 1..Len(path) }

\* The index tuples itertools.permutations runs through.
IndexPermutations(n) ==
  { f \in [1..n -> 1..n] : \A i, j \in 1..n : i # j => f[i] # f[j] }

Reorder(s, f) == [i \in 1..Len(s) |-> s[f[i]]]

\* itertools.permutations(tx_amounts): one tuple per index permutation, so a
\* value sequence comes once per index permutation that produces it.
ItertoolsPermutations(s) ==
  LET idx == IndexPermutations(Len(s))
      tuples == { Reorder(s, f) : f \in idx }
  IN  [t \in tuples |-> Cardinality({ f \in idx : Reorder(s, f) = t })]

\* The same without the set(): every tuple itertools.permutations yields.
AmountPermutationsNoSet(s) == ItertoolsPermutations(s)

\* list(set(itertools.permutations(tx_amounts)))
AmountPermutations(s) == SetToBag(BagToSet(ItertoolsPermutations(s)))

\* The update without the debit of the sender.
TransferCreditOnly(balances, sender, receiver, amount) ==
  [balances EXCEPT ![receiver] = @ + amount]

\* new_balances = current_balances.copy(); [sender] -= amount; [receiver] += amount
Transfer(balances, sender, receiver, amount) ==
  LET debited == [balances EXCEPT ![sender] = @ - amount]
  IN  [debited EXCEPT ![receiver] = @ + amount]

\* for sender in users: for receiver in users: the pairs in loop order
AllPairs(us) ==
  LET n == Len(us)
  IN  [k \in 1..(n * n) |-> << us[((k - 1) \div n) + 1], us[((k - 1) % n) + 1] >>]

NotSelf(pair) == pair[1] # pair[2]

\* The loops without the "if sender == receiver: continue".
BranchesWithSelf(us) == AllPairs(us)

\* The inner loop over the users after the sender only.
BranchesForward(us) ==
  LET n == Len(us)
      pairs == [k \in 1..(n * n) |-> << ((k - 1) \div n) + 1, ((k - 1) % n) + 1 >>]
      Later(pair) == pair[1] < pair[2]
      kept == SelectSeq(pairs, Later)
  IN  [k \in 1..Len(kept) |-> << us[kept[k][1]], us[kept[k][2]] >>]

\* The pairs the loops recurse on: sender == receiver is skipped.
Branches(us) == SelectSeq(AllPairs(us), NotSelf)

\* The comparison with any() for all().
BalancesMatchAny(current_balances) ==
  \E i \in 1..Len(users) :
    Abs(current_balances[users[i]] - final_balances[users[i]]) < Tol

\* The comparison with <= 1e-9 for < 1e-9.
BalancesMatchInclusive(current_balances) ==
  \A i \in 1..Len(users) :
    Abs(current_balances[users[i]] - final_balances[users[i]]) <= Tol

\* all(abs(current_balances[name] - final_balances[name]) < 1e-9 for name in user_names)
BalancesMatch(current_balances) ==
  \A i \in 1..Len(users) :
    Abs(current_balances[users[i]] - final_balances[users[i]]) < Tol

Frame(tx_index, current_balances, path, ordered_amounts) ==
  [ tx_index |-> tx_index, current_balances |-> current_balances,
    path |-> path, ordered_amounts |-> ordered_amounts ]

\* The recursive call with tx_index for tx_index + 1.
ChildSameSlot(frame, pair) ==
  LET amount == frame.ordered_amounts[frame.tx_index + 1]
  IN  Frame(frame.tx_index,
            Transfer(frame.current_balances, pair[1], pair[2], amount),
            Append(frame.path, << Label(pair[1], pair[2]), amount >>),
            frame.ordered_amounts)

\* The recursive call made for one (sender, receiver) of the loops.
Child(frame, pair) ==
  LET amount == frame.ordered_amounts[frame.tx_index + 1]
  IN  Frame(frame.tx_index + 1,
            Transfer(frame.current_balances, pair[1], pair[2], amount),
            Append(frame.path, << Label(pair[1], pair[2]), amount >>),
            frame.ordered_amounts)

\* An assignment for the add: the set holds the last path only.
AddSolutionOverwrite(solutions, path) == { Frozenset(path) }

\* An add that takes paths of positive amounts only.
AddSolutionPositiveOnly(solutions, path) ==
  IF \A i \in 1..Len(path) : path[i][2] > 0
    THEN solutions \cup { Frozenset(path) }
    ELSE solutions

\* unique_solutions.add(frozenset(path))
AddSolution(solutions, path) == solutions \cup { Frozenset(path) }

\* ---------------------------------------------------------------- inputs
AmountLists ==
  UNION { [1..n -> values] : n \in 0..MaxTx, values \in AmountValueSets }

\* Every wallet at the same balance, as Wallet() leaves it, or the k-th user of
\* the list k - 1 ticks above it.
InitialChoices(us) ==
  { [n \in Range(us) |-> BaseBal],
    [n \in Range(us) |-> BaseBal + (CHOOSE k \in 1..Len(us) : us[k] = n) - 1] }

FinalChoices(us, initial) ==
  { f \in [Range(us) -> (BaseBal - MaxDelta)..(BaseBal + MaxDelta + Len(us))] :
      \A n \in Range(us) : Abs(f[n] - initial[n]) <= MaxDelta }

\* ------------------------------------------------------------------ Init
\* The state when the for-loop of line 193 is reached.
Init ==
  /\ users \in UserLists
  /\ initial_balances \in InitialChoices(users)
  /\ final_balances \in FinalChoices(users, initial_balances)
  /\ tx_amounts \in AmountLists
  /\ amount_permutations = AmountPermutations(tx_amounts)
  /\ stack = << >>
  /\ unique_solutions = {}
  /\ pc = "run"
  /\ searched = EmptyBag
  /\ leaves = 0
  /\ emitted = {}

\* --------------------------------------------------------------- actions
\* for p in amount_permutations: find_solutions_recursive(0, initial_balances.copy(), [], p)
\* The list comes from a set, so the loop takes the orderings in no fixed order.
StartOrdering ==
  /\ pc = "run"
  /\ stack = << >>
  /\ \E p \in BagToSet(amount_permutations) :
       /\ amount_permutations' = amount_permutations (-) SetToBag({p})
       /\ searched' = searched (+) SetToBag({p})
       /\ stack' = << Frame(0, initial_balances, << >>, p) >>
  /\ UNCHANGED << inputs, unique_solutions, pc, leaves, emitted >>

\* A call with tx_index == num_tx: the base case.
BaseCase ==
  /\ pc = "run"
  /\ stack # << >>
  /\ LET frame == Head(stack) IN
       /\ frame.tx_index = num_tx
       /\ IF BalancesMatch(frame.current_balances)
            THEN /\ unique_solutions' = AddSolution(unique_solutions, frame.path)
                 /\ emitted' = emitted \cup
                      { [tx_index |-> frame.tx_index, path |-> frame.path] }
            ELSE UNCHANGED << unique_solutions, emitted >>
       /\ leaves' = leaves + 1
       /\ stack' = Tail(stack)
  /\ UNCHANGED << inputs, amount_permutations, pc, searched >>

\* A call with tx_index < num_tx: one recursive call per (sender, receiver),
\* made in loop order.
Recurse ==
  /\ pc = "run"
  /\ stack # << >>
  /\ LET frame == Head(stack)
         pairs == Branches(users)
     IN
       /\ frame.tx_index # num_tx
       /\ stack' = [k \in 1..Len(pairs) |-> Child(frame, pairs[k])] \o Tail(stack)
  /\ UNCHANGED << inputs, amount_permutations, unique_solutions, pc, searched,
                  leaves, emitted >>

\* The for-loop is exhausted: the analysis reports unique_solutions.
Finish ==
  /\ pc = "run"
  /\ stack = << >>
  /\ amount_permutations = EmptyBag
  /\ pc' = "done"
  /\ UNCHANGED << inputs, amount_permutations, stack, unique_solutions, searched,
                  leaves, emitted >>

Next == StartOrdering \/ BaseCase \/ Recurse \/ Finish

Spec == Init /\ [][Next]_vars

FairSpec == Spec /\ WF_vars(Next)



\* ================================================================ properties
\* Definitions the properties are stated with.  They recompute what a path
\* does from the path alone, and never look at the search's running balances.

P == Len(users)

RECURSIVE SumOver(_, _)
SumOver(f, S) ==
  IF S = {} THEN 0
  ELSE LET n == CHOOSE m \in S : TRUE IN f[n] + SumOver(f, S \ {n})

RECURSIVE Factorial(_)
Factorial(n) == IF n = 0 THEN 1 ELSE n * Factorial(n - 1)

RECURSIVE Power(_, _)
Power(b, e) == IF e = 0 THEN 1 ELSE b * Power(b, e - 1)

Count(s, v) == Cardinality({ i \in 1..Len(s) : s[i] = v })

\* The sequences holding the same values as s, each as often as s does.
ValueOrderings(s) ==
  { t \in [1..Len(s) -> Range(s)] : \A v \in Range(s) : Count(t, v) = Count(s, v) }

OrderedPairs == { pr \in user_names \X user_names : pr[1] # pr[2] }

\* The (sender, receiver) a label names.
Parties(label) ==
  CHOOSE pr \in user_names \X user_names : Label(pr[1], pr[2]) = label

\* The balances after one flow (label, amount): the sender is debited, the
\* receiver credited.
AfterFlow(balances, flow) ==
  LET pr == Parties(flow[1])
  IN  [n \in DOMAIN balances |->
         balances[n] - (IF n = pr[1] THEN flow[2] ELSE 0)
                     + (IF n = pr[2] THEN flow[2] ELSE 0)]

\* The balances after the flows of a path, taken in slot order.
RECURSIVE Replay(_, _)
Replay(balances, path) ==
  IF path = << >> THEN balances
  ELSE Replay(AfterFlow(balances, Head(path)), Tail(path))

\* The balances after the pairs of a canonical solution, each taken once.
RECURSIVE ReplaySet(_, _)
ReplaySet(balances, sol) ==
  IF sol = {} THEN balances
  ELSE LET flow == CHOOSE fl \in sol : TRUE
       IN  ReplaySet(AfterFlow(balances, flow), sol \ {flow})

WithinTolerance(balances) ==
  \A n \in user_names : Abs(balances[n] - final_balances[n]) < Tol

\* Every way to give each slot of an ordering a sender and a receiver.
PathsOf(ordering) ==
  { [i \in 1..Len(ordering) |-> << Label(a[i][1], a[i][2]), ordering[i] >>] :
      a \in [1..Len(ordering) -> OrderedPairs] }

AllPaths == UNION { PathsOf(o) : o \in ValueOrderings(tx_amounts) }

\* What the analysis has to report: the canonical form of every path that
\* reproduces the final balances.  It is stated over the set of users and the
\* multiset of amounts, with no order of traversal in it.
ReferenceSolutions ==
  { Frozenset(path) : path \in { q \in AllPaths :
                                   WithinTolerance(Replay(initial_balances, q)) } }

SumDifference ==
  SumOver(final_balances, user_names) - SumOver(initial_balances, user_names)

HasNegativeAmount == \E i \in 1..num_tx : tx_amounts[i] < 0

LeafBound == Factorial(num_tx) * Power(P * (P - 1), num_tx)

\* ------------------------------------------------------------------- C1
\* C1 (as stated): whenever the sum of the initial balances differs from the
\* sum of the final balances, unique_solutions ends empty.
C1_ConservationLaw ==
  (pc = "done" /\ SumDifference # 0) => unique_solutions = {}

\* C1 (amended): whenever the two sums differ, and by at least the tolerance
\* times the number of users, unique_solutions stays empty throughout.
C1_ConservationBeyondTolerance ==
  (SumDifference # 0 /\ Abs(SumDifference) >= P * Tol) => unique_solutions = {}

C1_Witness ==
  /\ pc = "done"
  /\ P = 2
  /\ num_tx = 2
  /\ Abs(SumDifference) >= P * Tol
  /\ leaves = LeafBound
  /\ unique_solutions = {}

\* ------------------------------------------------------------------- C2
\* C2: for any true transfers (sender # receiver) whose amounts are the
\* supplied amounts in some order and which take the initial balances to the
\* final balances, the canonical form of those transfers is in
\* unique_solutions at the end.
C2_GroundTruthMember ==
  pc = "done" =>
    \A truth \in AllPaths :
      Replay(initial_balances, truth) = final_balances
        => Frozenset(truth) \in unique_solutions

C2_Witness ==
  /\ pc = "done"
  /\ num_tx = 2
  /\ tx_amounts[1] # tx_amounts[2]
  /\ \A i \in 1..num_tx : tx_amounts[i] > 0
  /\ \E truth \in AllPaths :
       /\ Replay(initial_balances, truth) = final_balances
       /\ truth[1][1] # truth[2][1]
       /\ Frozenset(truth) \in unique_solutions

\* ------------------------------------------------------------------- C3
\* C3: no path of a pending call, no path added and no solution of
\* unique_solutions holds a flow from a user to that same user.
SelfLabels == { Label(n, n) : n \in user_names }

ProperLabels == { Label(pr[1], pr[2]) : pr \in OrderedPairs }

ProperFlow(flow) == flow[1] \in ProperLabels /\ flow[1] \notin SelfLabels

C3_NoSelfTransfer ==
  /\ \A i \in 1..Len(stack) :
       \A k \in 1..Len(stack[i].path) : ProperFlow(stack[i].path[k])
  /\ \A e \in emitted : \A k \in 1..Len(e.path) : ProperFlow(e.path[k])
  /\ \A sol \in unique_solutions : \A flow \in sol : ProperFlow(flow)

C3_Witness ==
  /\ stack # << >>
  /\ Len(Head(stack).path) = 2
  /\ \E sol \in unique_solutions : Cardinality(sol) = 2

\* ------------------------------------------------------------------- C4
\* C4: a path is added only by a call at slot index num_tx, it has num_tx
\* flows, and replaying them in slot order on the initial balances gives every
\* user's final balance within the tolerance; unique_solutions holds the
\* canonical forms of the paths added and nothing else.
C4_AcceptanceSound ==
  /\ \A e \in emitted :
       /\ e.tx_index = num_tx
       /\ Len(e.path) = num_tx
       /\ WithinTolerance(Replay(initial_balances, e.path))
  /\ unique_solutions = { Frozenset(e.path) : e \in emitted }

C4_Witness ==
  /\ pc = "done"
  /\ num_tx = 2
  /\ P = 2
  /\ emitted # {}
  /\ leaves > Cardinality(emitted)

\* ------------------------------------------------------------------- C5
\* C5 (as stated): with no amounts, unique_solutions ends as the one empty
\* solution when the initial balances equal the final ones, and empty when
\* they differ for some user.
C5_TrivialCase ==
  (pc = "done" /\ num_tx = 0) =>
    IF \A n \in user_names : initial_balances[n] = final_balances[n]
      THEN unique_solutions = { {} }
      ELSE unique_solutions = {}

\* C5 (amended): with no amounts, unique_solutions ends as the one empty
\* solution when every user's final balance is within the tolerance of the
\* initial one, and empty when some user's is not.
C5_TrivialCaseWithinTolerance ==
  (pc = "done" /\ num_tx = 0) =>
    IF \A n \in user_names : Abs(initial_balances[n] - final_balances[n]) < Tol
      THEN unique_solutions = { {} }
      ELSE unique_solutions = {}

C5_Witness ==
  /\ pc = "done"
  /\ num_tx = 0
  /\ P = 2
  /\ \E n \in user_names : initial_balances[n] # final_balances[n]
  /\ unique_solutions = { {} }

\* ------------------------------------------------------------------- C6
\* C6 (as stated): whenever an amount is negative, unique_solutions ends empty.
C6_NegativeAmountsEmpty ==
  (pc = "done" /\ HasNegativeAmount) => unique_solutions = {}

\* C6 (amended): whenever an amount is negative, the analysis still ends with
\* exactly the canonical forms of the paths that reproduce the final balances;
\* the set is empty only when there is no such path.
C6_NegativeAmountsSearched ==
  (pc = "done" /\ HasNegativeAmount) =>
    /\ unique_solutions = ReferenceSolutions
    /\ (unique_solutions = {}) <=>
         ~ \E path \in AllPaths : WithinTolerance(Replay(initial_balances, path))

C6_Witness ==
  /\ pc = "done"
  /\ HasNegativeAmount
  /\ P = 2
  /\ unique_solutions # {}

\* ------------------------------------------------------------------- C7
\* C7: whatever the order in which the orderings are taken and whatever the
\* order of the users (hence of the sender/receiver branches), the analysis
\* ends with the same unique_solutions: the set fixed by the users, the
\* balances and the multiset of amounts.
C7_TraversalIndependent ==
  pc = "done" => unique_solutions = ReferenceSolutions

C7_Witness ==
  /\ pc = "done"
  /\ users = << "B", "A" >>
  /\ num_tx = 2
  /\ tx_amounts[1] # tx_amounts[2]
  /\ Cardinality(unique_solutions) > 1

\* ------------------------------------------------------------------- C8
\* C8: the analysis terminates; it never makes more than
\* num_tx! * (P*(P-1))^num_tx base-case calls; no pending call is deeper than
\* num_tx; and with fewer than two users and at least one amount it adds
\* nothing.
C8_Termination ==
  /\ <>(pc = "done")
  /\ [](leaves <= LeafBound)
  /\ [](\A i \in 1..Len(stack) :
          /\ stack[i].tx_index <= num_tx
          /\ Len(stack[i].path) = stack[i].tx_index)
  /\ []((P < 2 /\ num_tx > 0) => (emitted = {} /\ unique_solutions = {}))

C8_Witness ==
  /\ pc = "done"
  /\ P = 2
  /\ num_tx = 2
  /\ leaves = LeafBound

\* ------------------------------------------------------------------- C9
\* C9: the orderings handed to the search are value-sequences of the amounts,
\* none is handed over twice, at the end each of them has been handed over
\* once, and an empty list of amounts gives the one empty ordering.
C9_PermutationEnumeration ==
  /\ BagToSet(searched) \subseteq ValueOrderings(tx_amounts)
  /\ \A o \in BagToSet(searched) : CopiesIn(o, searched) = 1
  /\ pc = "done" => BagToSet(searched) = ValueOrderings(tx_amounts)
  /\ (pc = "done" /\ num_tx = 0) => searched = SetToBag({ << >> })

C9_Witness ==
  /\ pc = "done"
  /\ num_tx = 2
  /\ tx_amounts[1] = tx_amounts[2]
  /\ P = 2
  /\ searched = SetToBag({ tx_amounts })

\* ------------------------------------------------------------------ C10
\* C10: every solution of unique_solutions holds num_tx pairs, its amounts
\* are the supplied amounts as a multiset, and applying its pairs to the
\* initial balances gives the final balances within the tolerance.
C10_OnePairPerSlot ==
  \A sol \in unique_solutions :
    /\ Cardinality(sol) = num_tx
    /\ \A v \in Range(tx_amounts) :
         Cardinality({ flow \in sol : flow[2] = v }) = Count(tx_amounts, v)
    /\ WithinTolerance(ReplaySet(initial_balances, sol))
====
